---- MODULE Spec2Model ----
(***************************************************************************)
(* A model of manor: the typed collection layer over a document store,    *)
(* the process-wide default Client, the Model trait's collection fallback, *)
(* the Cursor that tags what it yields, and the lazy Link.                 *)
(*                                                                         *)
(* One record type M is modelled (manor_testing's User, collection         *)
(* "users"): an identity and one declared field, plus the hidden           *)
(* _collection back-reference the schema macro adds.                       *)
(***************************************************************************)
EXTENDS Integers, Sequences, FiniteSets, TLC

(***************************************************************************)
(* Bounds of the model.                                                    *)
(***************************************************************************)
MaxId == 2
MaxDeleteCount == 2
MaxQueries == 2
MaxFields == 2
MaxNameLen == 3
MaxLength == 1

(***************************************************************************)
(* Values.                                                                 *)
(***************************************************************************)
\* Option<T>
None == [tag |-> "None"]
Some(x) == [tag |-> "Some", value |-> x]
IsSome(o) == o.tag = "Some"

\* Two Clients, each its own connection and database.
Clients == {"c1", "c2"}
Ids == 1 .. MaxId
Vals == {"a", "b"}

\* The collection name the schema macro generates for M.
collection_name == "users"
CollNames == {"users", "sessions"}

\* Client::database: the database a Client names.
database(client) == client

\* Client::collection with the raw handle taken from one fixed database.
ClientCollection_fixed_database(client) ==
    [collection |-> [database |-> database(CHOOSE c \in Clients : TRUE),
                     name |-> collection_name],
     client |-> client]

\* Client::collection::<M>(): raw handle on collection_name() in the
\* Client's database, and the Client itself.
ClientCollection(client) ==
    [collection |-> [database |-> database(client), name |-> collection_name],
     client |-> client]

\* Collection::name
name(coll) == coll.collection.name

\* A record of type M as the schema macro lays it out.
Records ==
    [id : Ids, val : Vals,
     _collection : {None} \cup {Some(ClientCollection(c)) : c \in Clients}]

\* Direct construction: the back-reference starts absent.
Construct(i, v) == [id |-> i, val |-> v, _collection |-> None]

\* Model::own_collection and Model::attach_collection as generated.
own_collection(r) == r._collection
attach_collection(r, coll) == [r EXCEPT !._collection = Some(coll)]

\* Collection::wrap
wrap(coll, r) == attach_collection(r, coll)

\* Wire form of a record: _collection is #[serde(skip)], the identity goes
\* under _id.
to_document(r) == [_id |-> r.id, val |-> r.val]

\* Deserialization by serde: a skipped field takes its Default, None.
from_wire(d) == [id |-> d._id, val |-> d.val, _collection |-> None]

\* from_document with the Collection it is given left out.
from_document_untagged(document, coll) == from_wire(document)

\* Model::from_document as generated: deserialize, then set _collection to
\* the Collection given, if any.
from_document(document, coll) ==
    [from_wire(document) EXCEPT !._collection = coll]

Docs == [_id : Ids, val : Vals]

\* Filter documents: a conjunction of optional equalities; 0 and "*" stand
\* for a key the filter does not mention.
ById(i) == [_id |-> i, val |-> "*"]
ByVal(v) == [_id |-> 0, val |-> v]
All == [_id |-> 0, val |-> "*"]
Queries == {ById(i) : i \in Ids} \cup {ByVal(v) : v \in Vals} \cup {All}
MatchesDoc(q, d) ==
    /\ (q._id = 0 \/ d._id = q._id)
    /\ (q.val = "*" \/ d.val = q.val)
Matching(docs, q) == {d \in docs : MatchesDoc(q, d)}

(***************************************************************************)
(* State.                                                                  *)
(***************************************************************************)
VARIABLES
    MANOR_CLIENT,   \* the OnceCell<Client>: None or Some(client)
    self,           \* the Collection the caller invokes operations on
    store,          \* store[database][collection name]: the documents held
    rec,            \* the record the caller holds, if any
    cursor,         \* the open Cursor, if any
    link,           \* the Link the caller holds
    resolveQueries, \* store queries issued by resolve() since the Link was
                    \* built or last refreshed
    resolveHits,    \* those of them that found the document
    result,         \* what the last operation returned and the store
                    \* calls it issued
    tasks,          \* the concurrent replace_or_insert_one calls: where
                    \* each is and what it has seen and returned
    bucket,         \* the files collection of the GridFS bucket
    writer          \* the open GridWriter, if any

vars == <<MANOR_CLIENT, self, store, rec, cursor, link, resolveQueries,
          resolveHits, result, tasks, bucket, writer>>

\* The names of the concurrent calls, and a call that has not been made.
Tasks == {"t1", "t2"}
NoTask ==
    [pc |-> "idle", document |-> None, hit |-> FALSE, failed |-> {},
     status |-> "None", duplicate |-> FALSE]

\* A store call as a test double would log it.
Call(op, coll) == [op |-> op, ns |-> coll.collection]

\* The outcome of an operation. status is "Ok", "NotFound", "MongoError"
\* or "Panic"; value is the Option<M> an Ok carries; coll the Collection an
\* Ok carries; reported the delete count the store reported; args the
\* query and the value (a record, a Link, a template struct) the operation
\* was called with; failed the
\* positions in calls of the store calls that came back as errors.
Res(op, status, value, coll, reported, calls) ==
    [op |-> op, status |-> status, value |-> value, coll |-> coll,
     reported |-> reported, calls |-> calls,
     args |-> [query |-> None, document |-> None], failed |-> {}]

\* The outcome res of an operation whose k-th store call failed.
Failed(res, k) == [res EXCEPT !.failed = {k}]

\* The outcome res of an operation called with query q and value r.
CalledWith(res, q, r) ==
    [res EXCEPT !.args = [query |-> q, document |-> r]]

\* Client::collection and Collection::new_local: one Collection per Client.
Collections == {ClientCollection(c) : c \in Clients}

Init ==
    /\ MANOR_CLIENT = None
    /\ self \in Collections
    /\ store = [c \in Clients |-> [n \in CollNames |-> {}]]
    /\ rec = None
    /\ cursor = None
    /\ link = [collection |-> collection_name, id |-> 1,
               resolved |-> None, client |-> None]
    /\ resolveQueries = 0
    /\ resolveHits = 0
    /\ result = Res("init", "Ok", None, None, None, <<>>)
    /\ tasks = [t \in Tasks |-> NoTask]
    /\ bucket = {}
    /\ writer = None

\* The documents a Collection's raw handle addresses.
DocsOf(coll) == store[coll.collection.database][coll.collection.name]
StoreWith(coll, docs) ==
    [store EXCEPT ![coll.collection.database][coll.collection.name] = docs]

(***************************************************************************)
(* The process-wide default Client.                                        *)
(***************************************************************************)
\* Client::global
global == MANOR_CLIENT

\* as_global with a cell that takes every set.
as_global_overwrite(client) ==
    /\ MANOR_CLIENT' = Some(client)
    /\ result' = Res("as_global", "Ok", None, None, None, <<>>)
    /\ UNCHANGED <<self, store, rec, cursor, link, resolveQueries,
                   resolveHits, tasks,
                   bucket, writer>>

\* Client::as_global: OnceCell::set, and expect() on its result.
as_global(client) ==
    /\ IF MANOR_CLIENT = None
       THEN /\ MANOR_CLIENT' = Some(client)
            /\ result' = Res("as_global", "Ok", None, None, None, <<>>)
       ELSE /\ MANOR_CLIENT' = MANOR_CLIENT
            /\ result' = Res("as_global", "Panic", None, None, None, <<>>)
    /\ UNCHANGED <<self, store, rec, cursor, link, resolveQueries,
                   resolveHits, tasks,
                   bucket, writer>>

AsGlobal == \E c \in Clients : as_global(c)

\* Collection::new_global
new_global ==
    IF global = None THEN None ELSE Some(ClientCollection(global.value))

\* Collection::new: expect() on the default Client.
Collection_new ==
    /\ result' = IF global = None
                 THEN Res("new", "Panic", None, None, None, <<>>)
                 ELSE Res("new", "Ok", None, new_global, None, <<>>)
    /\ UNCHANGED <<MANOR_CLIENT, self, store, rec, cursor, link, resolveQueries,
                   resolveHits, tasks,
                   bucket, writer>>

(***************************************************************************)
(* The store, as the mongodb driver presents it to Collection.  Each       *)
(* operator gives the set of outcomes the store may produce; which         *)
(* matching document a single-document operation picks is the store's      *)
(* choice.                                                                 *)
(***************************************************************************)
Outcome(docs, found, err) == [docs |-> docs, found |-> found, err |-> err]

\* mongodb delete_one: removes at most one matching document and reports
\* how many it removed.  A fabricated backend may report a larger count.
StoreDeleteOne(docs, q) ==
    LET honest ==
            IF Matching(docs, q) = {}
            THEN {[docs |-> docs, deleted_count |-> 0]}
            ELSE {[docs |-> docs \ {d}, deleted_count |-> 1] :
                    d \in Matching(docs, q)}
    IN  honest \cup
        {[docs |-> h.docs, deleted_count |-> k] :
            h \in honest, k \in 2 .. MaxDeleteCount}

\* insert_one on a collection that does not keep _id unique.
StoreInsertOne_not_unique(docs, d) == Outcome(docs \cup {d}, None, FALSE)

\* mongodb insert_one: _id is unique within a collection.
StoreInsertOne(docs, d) ==
    IF \E e \in docs : e._id = d._id
    THEN Outcome(docs, None, TRUE)
    ELSE Outcome(docs \cup {d}, None, FALSE)

\* mongodb find_one
StoreFindOne(docs, q) ==
    IF Matching(docs, q) = {}
    THEN {Outcome(docs, None, FALSE)}
    ELSE {Outcome(docs, Some(d), FALSE) : d \in Matching(docs, q)}

\* mongodb find_one_and_delete
StoreFindOneAndDelete(docs, q) ==
    IF Matching(docs, q) = {}
    THEN {Outcome(docs, None, FALSE)}
    ELSE {Outcome(docs \ {d}, Some(d), FALSE) : d \in Matching(docs, q)}

\* What writing document new over a match of q does: _id is immutable, and
\* an upsert inserts new when nothing matches.
ReplaceIn(docs, q, new, upsert) ==
    IF Matching(docs, q) = {}
    THEN IF ~upsert
         THEN {Outcome(docs, None, FALSE)}
         ELSE IF \/ (q._id # 0 /\ q._id # new._id)
                 \/ \E e \in docs : e._id = new._id
              THEN {Outcome(docs, None, TRUE)}
              ELSE {Outcome(docs \cup {new}, None, FALSE)}
    ELSE {IF d._id # new._id
          THEN Outcome(docs, None, TRUE)
          ELSE Outcome((docs \ {d}) \cup {new}, Some(d), FALSE) :
            d \in Matching(docs, q)}

\* mongodb find_one_and_replace; it returns the document as it was.
StoreFindOneAndReplace(docs, q, new, upsert) == ReplaceIn(docs, q, new, upsert)

\* mongodb find_one_and_update with {"$set": {"val": m}}.
StoreFindOneAndUpdate(docs, q, m) ==
    IF Matching(docs, q) = {}
    THEN {Outcome(docs, None, FALSE)}
    ELSE {Outcome((docs \ {d}) \cup {[d EXCEPT !.val = m]}, Some(d), FALSE) :
            d \in Matching(docs, q)}

\* mongodb replace_one
StoreReplaceOne(docs, q, new, upsert) == ReplaceIn(docs, q, new, upsert)

(***************************************************************************)
(* Collection.  fail says whether the store call fails.                    *)
(***************************************************************************)
\* delete_one_result with a count of zero taken for success.
delete_one_result_zero_ok(deleted_count) ==
    IF deleted_count <= 1 THEN "Ok" ELSE "NotFound"

\* The match in Collection::delete_one on the count delete_with_options
\* returns.
delete_one_result(deleted_count) ==
    IF deleted_count = 1 THEN "Ok" ELSE "NotFound"

\* Collection::delete_one, through delete_with_options(query, Ops::One, None)
delete_one(coll, q, fail) ==
    /\ \E out \in StoreDeleteOne(DocsOf(coll), q) :
        IF fail
        THEN /\ store' = store
             /\ result' = CalledWith(
                    Failed(Res("delete_one", "MongoError", None, None, None,
                        <<Call("delete_one", coll)>>), 1), Some(q), None)
        ELSE /\ store' = StoreWith(coll, out.docs)
             /\ result' = CalledWith(
                    Res("delete_one", delete_one_result(out.deleted_count),
                        None, None, Some(out.deleted_count),
                        <<Call("delete_one", coll)>>), Some(q), None)
    /\ UNCHANGED <<MANOR_CLIENT, self, rec, cursor, link, resolveQueries,
                   resolveHits, tasks,
                   bucket, writer>>

\* Collection::insert_one
insert_one(coll, r, fail) ==
    /\ LET out == StoreInsertOne(DocsOf(coll), to_document(r))
       IN  IF fail \/ out.err
           THEN /\ store' = store
                /\ result' = CalledWith(
                       Failed(Res("insert_one", "MongoError", None, None, None,
                           <<Call("insert_one", coll)>>), 1), None, Some(r))
           ELSE /\ store' = StoreWith(coll, out.docs)
                /\ result' = CalledWith(
                       Res("insert_one", "Ok", None, None, None,
                           <<Call("insert_one", coll)>>), None, Some(r))
    /\ UNCHANGED <<MANOR_CLIENT, self, rec, cursor, link, resolveQueries,
                   resolveHits, tasks,
                   bucket, writer>>

\* Collection::replace_one
replace_one(coll, q, r, fail) ==
    /\ \E out \in StoreReplaceOne(DocsOf(coll), q, to_document(r), FALSE) :
        IF fail \/ out.err
        THEN /\ store' = store
             /\ result' = CalledWith(
                    Failed(Res("replace_one", "MongoError", None, None, None,
                        <<Call("replace_one", coll)>>), 1), Some(q), Some(r))
        ELSE /\ store' = StoreWith(coll, out.docs)
             /\ result' = CalledWith(
                    Res("replace_one", "Ok", None, None, None,
                        <<Call("replace_one", coll)>>), Some(q), Some(r))
    /\ UNCHANGED <<MANOR_CLIENT, self, rec, cursor, link, resolveQueries,
                   resolveHits, tasks,
                   bucket, writer>>

\* The Find::One, Delete, Replace and Update arms of Collection::find: the
\* Option<M> the driver deserialized goes into FindResult::Single as it is.
FindSingle(found) ==
    IF IsSome(found) THEN Some(from_wire(found.value)) ELSE None

\* Collection::find for the single-record kinds, followed by
\* single().unwrap() as find_one and its siblings do.  outs is the store's
\* set of outcomes for the call with query q.
find_single(op, coll, q, outs, fail) ==
    /\ \E out \in outs :
        IF fail \/ out.err
        THEN /\ store' = store
             /\ result' = CalledWith(
                    Failed(Res(op, "MongoError", None, None, None,
                        <<Call(op, coll)>>), 1), Some(q), None)
        ELSE /\ store' = StoreWith(coll, out.docs)
             /\ result' = CalledWith(
                    Res(op, "Ok", FindSingle(out.found), None, None,
                        <<Call(op, coll)>>), Some(q), None)
    /\ UNCHANGED <<MANOR_CLIENT, self, rec, cursor, link, resolveQueries,
                   resolveHits, tasks,
                   bucket, writer>>

\* Collection::find_one
find_one(coll, q, fail) ==
    find_single("find_one", coll, q, StoreFindOne(DocsOf(coll), q), fail)

\* get with a filter that matches every document.
get_unfiltered(coll, i, fail) ==
    find_single("get", coll, ById(i), StoreFindOne(DocsOf(coll), All), fail)

\* Collection::get
get(coll, i, fail) ==
    find_single("get", coll, ById(i), StoreFindOne(DocsOf(coll), ById(i)),
                fail)

\* Collection::find_one_and_delete
find_one_and_delete(coll, q, fail) ==
    find_single("find_one_and_delete", coll, q,
                StoreFindOneAndDelete(DocsOf(coll), q), fail)

\* Collection::find_one_and_replace
find_one_and_replace(coll, q, r, fail) ==
    find_single("find_one_and_replace", coll, q,
                StoreFindOneAndReplace(DocsOf(coll), q, to_document(r), FALSE),
                fail)

\* Collection::find_one_and_upsert
find_one_and_upsert(coll, q, r, fail) ==
    find_single("find_one_and_upsert", coll, q,
                StoreFindOneAndReplace(DocsOf(coll), q, to_document(r), TRUE),
                fail)

\* Collection::find_one_and_update
find_one_and_update(coll, q, m, fail) ==
    find_single("find_one_and_update", coll, q,
                StoreFindOneAndUpdate(DocsOf(coll), q, m), fail)

\* Collection::delete
delete(coll, document, fail) == delete_one(coll, ById(document.id), fail)

\* as_doc in replace_or_insert_one: to_document(&document) with "_id"
\* removed.
as_doc(r) == [val |-> to_document(r).val]

\* A replace that rewrites every matching document.
StoreReplaceOneNoId_every_match(docs, q, fields) ==
    {Outcome((docs \ Matching(docs, q))
                \cup {[_id |-> d._id, val |-> fields.val] :
                        d \in Matching(docs, q)},
             None, FALSE)}

\* mongodb replace_one with a replacement that has no _id: the matched
\* document keeps its _id; with no match nothing is written and the call
\* succeeds with a matched count of zero.
StoreReplaceOneNoId(docs, q, fields) ==
    IF Matching(docs, q) = {}
    THEN {Outcome(docs, None, FALSE)}
    ELSE {Outcome((docs \ {d}) \cup {[_id |-> d._id, val |-> fields.val]},
                  Some(d), FALSE) : d \in Matching(docs, q)}

\* The test `if let Ok(Some(_)) = find_one(query)` of
\* replace_or_insert_one on the probe's answer.
probe_hit(failProbe, found) == ~failProbe /\ IsSome(found)

\* The write replace_or_insert_one issues after its probe: replace_one on
\* the untyped collection when the probe hit, insert_one otherwise.
write_call(hit) == IF hit THEN "replace_one" ELSE "insert_one"

write_outcomes(docs, q, r, hit) ==
    IF hit
    THEN StoreReplaceOneNoId(docs, q, as_doc(r))
    ELSE {StoreInsertOne(docs, to_document(r))}

\* Collection::replace_or_insert_one run without interleaving, reported
\* under the name op: the probe, then the write.
ReplaceOrInsert(op, coll, q, r, failProbe, failWrite) ==
    /\ \E p \in StoreFindOne(DocsOf(coll), q) :
        LET hit == probe_hit(failProbe, p.found)
            calls == <<Call("find_one", coll), Call(write_call(hit), coll)>>
            probed == IF failProbe THEN {1} ELSE {}
        IN  \E w \in write_outcomes(DocsOf(coll), q, r, hit) :
                IF failWrite \/ w.err
                THEN /\ store' = store
                     /\ result' = CalledWith(
                            [Res(op, "MongoError", None, None, None, calls)
                                EXCEPT !.failed = probed \cup {2}],
                            Some(q), Some(r))
                ELSE /\ store' = StoreWith(coll, w.docs)
                     /\ result' = CalledWith(
                            [Res(op, "Ok", None, None, None, calls)
                                EXCEPT !.failed = probed],
                            Some(q), Some(r))
    /\ UNCHANGED <<MANOR_CLIENT, self, rec, cursor, link, resolveQueries,
                   resolveHits, tasks,
                   bucket, writer>>

\* Collection::replace_or_insert_one
replace_or_insert_one(coll, q, r, failProbe, failWrite) ==
    ReplaceOrInsert("replace_or_insert_one", coll, q, r, failProbe, failWrite)

\* Collection::save
save(coll, document, failProbe, failWrite) ==
    ReplaceOrInsert("save", coll, ById(document.id), document, failProbe,
                    failWrite)

(***************************************************************************)
(* Cursor.  The driver's cursor is the sequence of documents it has yet to *)
(* yield, in the store's order; erred records that an Err item was         *)
(* yielded.                                                                *)
(***************************************************************************)
RECURSIVE Orders(_)
\* The orders in which the store may return a set of documents.
Orders(docs) ==
    IF docs = {}
    THEN {<<>>}
    ELSE UNION {{<<d>> \o rest : rest \in Orders(docs \ {d})} : d \in docs}

\* Collection::cursor
Collection_cursor(coll, base) ==
    [collection |-> coll, base |-> base, erred |-> FALSE]

\* Collection::find_many: the Find::Many arm of Collection::find, then
\* cursor().unwrap().
find_many(coll, q, fail) ==
    /\ IF fail
       THEN /\ cursor' = cursor
            /\ result' = Failed(Res("find_many", "MongoError", None, None, None,
                             <<Call("find", coll)>>), 1)
       ELSE /\ \E base \in Orders(Matching(DocsOf(coll), q)) :
                 cursor' = Some(Collection_cursor(coll, base))
            /\ result' = Res("find_many", "Ok", None, None, None,
                             <<Call("find", coll)>>)
    /\ UNCHANGED <<MANOR_CLIENT, self, store, rec, link, resolveQueries,
                   resolveHits, tasks,
                   bucket, writer>>

\* Tagged with the record passed on as the driver yielded it.
Tagged_untouched(cur, record) == record

\* The Ready(Some(Ok(record))) arm of Cursor::poll_next.
Tagged(cur, record) == attach_collection(record, cur.collection)

\* poll_next ending the sequence at the first error of the driver's
\* cursor.
poll_next_fused(polled, consumed) ==
    /\ IsSome(cursor)
    /\ LET cur == cursor.value
       IN  CASE polled = "pending" ->
                 /\ cursor' = cursor
                 /\ result' = Res("poll_next", "Pending", None, None, None, <<>>)
             [] polled = "error" ->
                 /\ cur.base # <<>>
                 /\ cursor' = Some([cur EXCEPT !.base = <<>>, !.erred = TRUE])
                 /\ result' = Res("poll_next", "MongoError", None, None, None,
                                  <<>>)
             [] polled = "item" /\ cur.base # <<>> ->
                 /\ cursor' = Some([cur EXCEPT !.base = Tail(@)])
                 /\ result' = Res("poll_next", "Ok",
                                  Some(Tagged(cur, from_wire(Head(cur.base)))),
                                  None, None, <<>>)
             [] polled = "item" /\ cur.base = <<>> ->
                 /\ cursor' = cursor
                 /\ result' = Res("poll_next", "End", None, None, None, <<>>)
    /\ UNCHANGED <<MANOR_CLIENT, self, store, rec, link, resolveQueries,
                   resolveHits, tasks,
                   bucket, writer>>

\* Cursor::poll_next.  polled is what the driver's cursor answers: "item",
\* "error" (with or without consuming a document), "pending"; an
\* exhausted cursor answers Ready(None).
poll_next(polled, consumed) ==
    /\ IsSome(cursor)
    /\ LET cur == cursor.value
       IN  CASE polled = "pending" ->
                 /\ cursor' = cursor
                 /\ result' = Res("poll_next", "Pending", None, None, None, <<>>)
             [] polled = "error" ->
                 /\ cur.base # <<>>
                 /\ cursor' = Some([cur EXCEPT
                        !.base = IF consumed THEN Tail(@) ELSE @,
                        !.erred = TRUE])
                 /\ result' = Res("poll_next", "MongoError", None, None, None,
                                  <<>>)
             [] polled = "item" /\ cur.base # <<>> ->
                 /\ cursor' = Some([cur EXCEPT !.base = Tail(@)])
                 /\ result' = Res("poll_next", "Ok",
                                  Some(Tagged(cur, from_wire(Head(cur.base)))),
                                  None, None, <<>>)
             [] polled = "item" /\ cur.base = <<>> ->
                 /\ cursor' = cursor
                 /\ result' = Res("poll_next", "End", None, None, None, <<>>)
    /\ UNCHANGED <<MANOR_CLIENT, self, store, rec, link, resolveQueries,
                   resolveHits, tasks,
                   bucket, writer>>

(***************************************************************************)
(* The schema macro.  A template is the sequence of the fields a struct    *)
(* declares; a declared field has its name, whether #[field(id = ..)]      *)
(* marks it, and the alias #[field(alias = ..)] gives it, if any.          *)
(***************************************************************************)
FieldNames == <<"name", "password", "email", "phone">>
Aliases == {"username"}

\* The template structs with at most MaxFields fields, distinctly named, at
\* most one of them marked as the identity.
Templates ==
    {t \in UNION {[1 .. n -> [ident : {FieldNames[k] : k \in 1 .. MaxFields},
                              id : BOOLEAN,
                              alias : {None} \cup {Some(a) : a \in Aliases}]] :
                    n \in 0 .. MaxFields} :
        /\ \A j, k \in DOMAIN t : t[j].ident = t[k].ident => j = k
        /\ Cardinality({k \in DOMAIN t : t[k].id}) <= 1}

\* A field of the generated struct: its name, its #[serde(rename)] if it
\* has one, and whether it is #[serde(skip)].
GenField(ident, rename, skip) ==
    [ident |-> ident, rename |-> rename, skip |-> skip]

\* The loop of generate_schema over one declared field: a field marked as
\* the identity is rebuilt with rename = "_id"; on any other field the
\* parsed #[field(..)] arguments are not used and the field is pushed as
\* declared.
generate_field(field) ==
    IF field.id
    THEN GenField(field.ident, Some("_id"), FALSE)
    ELSE GenField(field.ident, None, FALSE)

\* generate_schema: the fields of the generated struct.
generate_schema(template) ==
    LET new_fields == [k \in DOMAIN template |-> generate_field(template[k])]
        with_id == IF \E k \in DOMAIN template : template[k].id
                   THEN new_fields
                   ELSE <<GenField("id", Some("_id"), FALSE)>> \o new_fields
    IN  with_id \o <<GenField("_collection", None, TRUE)>>

\* The key serde writes a generated field under.
serde_key(gen) == IF IsSome(gen.rename) THEN gen.rename.value ELSE gen.ident

\* The keys of the wire form of a generated struct, field by field; a
\* skipped field has none.
wire_keys(generated) ==
    [k \in {j \in DOMAIN generated : ~generated[j].skip} |->
        serde_key(generated[k])]

\* Names as the macro sees them: strings over a lower-case letter, an
\* upper-case letter, an underscore and a hyphen.
Chars == {"a", "A", "_", "-"}
NamesOver(chars) == UNION {[1 .. n -> chars] : n \in 1 .. MaxNameLen}

\* The type names a struct can have: letters, the first in upper case.
TypeNames == {t \in NamesOver({"a", "A"}) : t[1] = "A"}

IsUpper(c) == c = "A"
IsLower(c) == c = "a"
IsDelim(c) == c \in {"_", "-"}
to_lowercase(c) == IF IsUpper(c) THEN "a" ELSE c

\* convert_case's word boundary before position i of s: a lower-case
\* letter followed by an upper-case one, or the last upper-case letter of a
\* run that a lower-case letter follows.
Boundary(s, i) ==
    /\ i > 1
    /\ IsUpper(s[i])
    /\ \/ IsLower(s[i - 1])
       \/ IsUpper(s[i - 1]) /\ i < Len(s) /\ IsLower(s[i + 1])

RECURSIVE SnakeFrom(_, _, _, _)
\* to_case(Case::Snake) from position i on: out is what has been written,
\* pending says a delimiter was passed since the last letter.
SnakeFrom(s, i, out, pending) ==
    IF i > Len(s)
    THEN out
    ELSE IF IsDelim(s[i])
         THEN SnakeFrom(s, i + 1, out, TRUE)
         ELSE LET sep == IF out # <<>> /\ (pending \/ Boundary(s, i))
                         THEN <<"_">> ELSE <<>>
              IN  SnakeFrom(s, i + 1, out \o sep \o <<to_lowercase(s[i])>>,
                            FALSE)

\* str::to_case(Case::Snake): the words of s in lower case, joined by
\* underscores.
to_case_snake(s) == SnakeFrom(s, 1, <<>>, FALSE)

\* generate_schema's collection_name: the `collection` argument, or the
\* schema name when there is none, then folded to snake case.
generated_collection_name(arg, schema_name) ==
    to_case_snake(IF IsSome(arg) THEN arg.value ELSE schema_name)

\* The macro works out the collection name of a struct, with or without a
\* `collection` argument, when the program is built.
GenerateCollectionName ==
    /\ result.op = "init"
    /\ \E schema_name \in TypeNames :
       \E arg \in {None} \cup {Some(n) : n \in NamesOver(Chars)} :
        result' = CalledWith(
            Res("collection_name", "Ok",
                Some(generated_collection_name(arg, schema_name)), None,
                None, <<>>), arg, Some(schema_name))
    /\ UNCHANGED <<MANOR_CLIENT, self, store, rec, cursor, link, resolveQueries,
                   resolveHits, tasks,
                   bucket, writer>>

\* The macro is applied to a template struct, when the program is built:
\* before anything of it runs.
GenerateSchema ==
    /\ result.op = "init"
    /\ \E template \in Templates :
        result' = CalledWith(
            Res("schema", "Ok", Some(generate_schema(template)), None, None,
                <<>>), None, Some(template))
    /\ UNCHANGED <<MANOR_CLIENT, self, store, rec, cursor, link, resolveQueries,
                   resolveHits, tasks,
                   bucket, writer>>

(***************************************************************************)
(* Model: the record the caller holds.                                     *)
(***************************************************************************)
\* collection with the default Client looked up before the record's own
\* Collection.
collection_default_first(r) ==
    IF MANOR_CLIENT = None
    THEN None
    ELSE IF IsSome(own_collection(r))
         THEN own_collection(r)
         ELSE Some(ClientCollection(MANOR_CLIENT.value))

\* Model::collection: the Collection it returns, None where it panics.
collection(r) ==
    IF IsSome(own_collection(r))
    THEN own_collection(r)
    ELSE IF MANOR_CLIENT = None
         THEN None
         ELSE Some(ClientCollection(MANOR_CLIENT.value))

\* The caller builds a record directly.
ConstructRecord ==
    /\ \E i \in Ids, v \in Vals : rec' = Some(Construct(i, v))
    /\ result' = Res("construct", "Ok", None, None, None, <<>>)
    /\ UNCHANGED <<MANOR_CLIENT, self, store, cursor, link, resolveQueries,
                   resolveHits, tasks,
                   bucket, writer>>

\* The caller passes the record it holds through Collection::wrap.
WrapRecord ==
    /\ IsSome(rec)
    /\ \E coll \in Collections : rec' = Some(wrap(coll, rec.value))
    /\ result' = Res("wrap", "Ok", None, None, None, <<>>)
    /\ UNCHANGED <<MANOR_CLIENT, self, store, cursor, link, resolveQueries,
                   resolveHits, tasks,
                   bucket, writer>>

\* The record the caller holds is serialized and read back with
\* from_document, with or without a Collection.
FromDocument ==
    /\ IsSome(rec)
    /\ \E coll \in {None} \cup {Some(c) : c \in Collections} :
        /\ rec' = Some(from_document(to_document(rec.value), coll))
        /\ result' = CalledWith(
               Res("from_document", "Ok", rec', coll, None, <<>>),
               None, rec)
    /\ UNCHANGED <<MANOR_CLIENT, self, store, cursor, link, resolveQueries,
                   resolveHits, tasks,
                   bucket, writer>>

\* The caller asks the record it holds for its Collection.
ModelCollection ==
    /\ IsSome(rec)
    /\ result' = IF IsSome(collection(rec.value))
                 THEN Res("collection", "Ok", None, collection(rec.value),
                          None, <<>>)
                 ELSE Res("collection", "Panic", None, None, None, <<>>)
    /\ UNCHANGED <<MANOR_CLIENT, self, store, rec, cursor, link, resolveQueries,
                   resolveHits, tasks,
                   bucket, writer>>

\* Model::save: self.collection().save(self.clone()); collection() panics
\* when the record has no Collection and there is no default Client.
Model_save(r, failProbe, failWrite) ==
    IF IsSome(collection(r))
    THEN save(collection(r).value, r, failProbe, failWrite)
    ELSE /\ result' = CalledWith(Res("save", "Panic", None, None, None, <<>>),
                                 Some(ById(r.id)), Some(r))
         /\ UNCHANGED <<MANOR_CLIENT, self, store, rec, cursor, link,
                        resolveQueries, resolveHits, tasks,
                   bucket, writer>>

\* Model::delete going to the default Client's Collection whenever a
\* default Client is published.
Model_delete_through_default(r, fail) ==
    IF IsSome(collection(r))
    THEN delete(IF MANOR_CLIENT = None
                THEN collection(r).value
                ELSE ClientCollection(MANOR_CLIENT.value), r, fail)
    ELSE /\ result' = CalledWith(Res("delete", "Panic", None, None, None, <<>>),
                                 Some(ById(r.id)), Some(r))
         /\ UNCHANGED <<MANOR_CLIENT, self, store, rec, cursor, link,
                        resolveQueries, resolveHits, tasks, bucket, writer>>

\* Model::delete: self.collection().delete(self); collection() panics when
\* the record has no Collection and there is no default Client.
Model_delete(r, fail) ==
    IF IsSome(collection(r))
    THEN delete(collection(r).value, r, fail)
    ELSE /\ result' = CalledWith(Res("delete", "Panic", None, None, None, <<>>),
                                 Some(ById(r.id)), Some(r))
         /\ UNCHANGED <<MANOR_CLIENT, self, store, rec, cursor, link,
                        resolveQueries, resolveHits, tasks, bucket, writer>>

(***************************************************************************)
(* Link<M>.                                                                *)
(***************************************************************************)
\* A Link as serde builds it: resolved and client are skipped fields.
Link_deserialize(coll_name, i) ==
    [collection |-> coll_name, id |-> i, resolved |-> None, client |-> None]

\* Serialization with the skipped fields written as well.
Link_serialize_all(l) == l

\* Link's derived Serialize: resolved and client are #[serde(skip)].
Link_serialize(l) == [collection |-> l.collection, id |-> l.id]

\* From<M> keeping the identity only.
Link_from_identity_only(r) ==
    [collection |-> collection_name, id |-> r.id, resolved |-> None,
     client |-> None]

\* impl From<M> for Link<M>
Link_from(r) ==
    [collection |-> collection_name, id |-> r.id, resolved |-> Some(r),
     client |-> None]

\* Link::client: the Client it returns, None where it panics.  The argument
\* of unwrap_or is evaluated before unwrap_or is called, so the expect() on
\* MANOR_CLIENT runs whether or not the Link has a Client of its own.
Link_client(l) ==
    IF MANOR_CLIENT = None
    THEN None
    ELSE IF IsSome(l.client) THEN l.client ELSE MANOR_CLIENT

\* Link::with_client
with_client(l, client) == [l EXCEPT !.client = Some(client)]

\* Link::value
value(l) == l.resolved

\* The match on what get returned, as resolve and refresh both have it:
\* the Link afterwards, and what is returned.
MatchLookup(l, found) ==
    IF IsSome(found)
    THEN [link |-> [l EXCEPT !.resolved = found], status |-> "Ok",
          value |-> found]
    ELSE [link |-> l, status |-> "NotFound", value |-> None]

\* The lookup made in the collection the Link's collection string names.
Lookup_in_named_collection(op, fail, counted) ==
    IF ~IsSome(Link_client(link))
    THEN /\ link' = link
         /\ result' = Res(op, "Panic", None, None, None, <<>>)
         /\ resolveQueries' = IF counted THEN resolveQueries ELSE 0
         /\ resolveHits' = IF counted THEN resolveHits ELSE 0
    ELSE LET coll == [ClientCollection(Link_client(link).value)
                         EXCEPT !.collection.name = link.collection]
         IN  \E out \in StoreFindOne(DocsOf(coll), ById(link.id)) :
                /\ resolveQueries' = IF counted THEN resolveQueries + 1 ELSE 0
                /\ IF fail
                   THEN /\ link' = link
                        /\ resolveHits' = IF counted THEN resolveHits ELSE 0
                        /\ result' = Failed(Res(op, "MongoError", None, None, None,
                                         <<Call("get", coll)>>), 1)
                   ELSE LET m == MatchLookup(link, FindSingle(out.found))
                        IN  /\ link' = m.link
                            /\ resolveHits' =
                                   IF ~counted THEN 0
                                   ELSE IF m.status = "Ok"
                                        THEN resolveHits + 1
                                        ELSE resolveHits
                            /\ result' = Res(op, m.status, m.value, None,
                                             None, <<Call("get", coll)>>)

\* self.client().collection::<M>().get(self.id).await? and the match on
\* it.  counted says whether the query counts as one of resolve().
Lookup(op, fail, counted) ==
    IF ~IsSome(Link_client(link))
    THEN /\ link' = link
         /\ result' = Res(op, "Panic", None, None, None, <<>>)
         /\ resolveQueries' = IF counted THEN resolveQueries ELSE 0
         /\ resolveHits' = IF counted THEN resolveHits ELSE 0
    ELSE LET coll == ClientCollection(Link_client(link).value)
         IN  \E out \in StoreFindOne(DocsOf(coll), ById(link.id)) :
                /\ resolveQueries' = IF counted THEN resolveQueries + 1 ELSE 0
                /\ IF fail
                   THEN /\ link' = link
                        /\ resolveHits' = IF counted THEN resolveHits ELSE 0
                        /\ result' = Failed(Res(op, "MongoError", None, None, None,
                                         <<Call("get", coll)>>), 1)
                   ELSE LET m == MatchLookup(link, FindSingle(out.found))
                        IN  /\ link' = m.link
                            /\ resolveHits' =
                                   IF ~counted THEN 0
                                   ELSE IF m.status = "Ok"
                                        THEN resolveHits + 1
                                        ELSE resolveHits
                            /\ result' = Res(op, m.status, m.value, None,
                                             None, <<Call("get", coll)>>)

\* resolve with the lookup repeated on every call.
resolve_always_queries(fail) ==
    /\ resolveQueries < MaxQueries
    /\ Lookup("resolve", fail, TRUE)
    /\ UNCHANGED <<MANOR_CLIENT, self, store, rec, cursor, tasks,
                   bucket, writer>>

\* Link::resolve
resolve(fail) ==
    /\ IF IsSome(link.resolved)
       THEN /\ result' = Res("resolve", "Ok", link.resolved, None, None, <<>>)
            /\ UNCHANGED <<link, resolveQueries, resolveHits, tasks,
                   bucket, writer>>
       ELSE /\ resolveQueries < MaxQueries
            /\ Lookup("resolve", fail, TRUE)
    /\ UNCHANGED <<MANOR_CLIENT, self, store, rec, cursor, tasks,
                   bucket, writer>>

\* Link::refresh
refresh(fail) ==
    /\ Lookup("refresh", fail, FALSE)
    /\ UNCHANGED <<MANOR_CLIENT, self, store, rec, cursor, tasks,
                   bucket, writer>>

(***************************************************************************)
(* The collection layer: every operation of the caller's Collection, with  *)
(* any input, with the store call failing or not.                          *)
(***************************************************************************)
CollectionNew == Collection_new

InsertOne ==
    \E i \in Ids, v \in Vals, fail \in BOOLEAN :
        insert_one(self, Construct(i, v), fail)

DeleteOne ==
    \E q \in Queries, fail \in BOOLEAN : delete_one(self, q, fail)

Delete ==
    \E i \in Ids, fail \in BOOLEAN :
        delete(self, Construct(i, CHOOSE v \in Vals : TRUE), fail)

ReplaceOne ==
    \E q \in Queries, i \in Ids, v \in Vals, fail \in BOOLEAN :
        replace_one(self, q, Construct(i, v), fail)

Get ==
    \E i \in Ids, fail \in BOOLEAN : get(self, i, fail)

FindOne ==
    \E q \in Queries, fail \in BOOLEAN : find_one(self, q, fail)

FindOneAndDelete ==
    \E q \in Queries, fail \in BOOLEAN : find_one_and_delete(self, q, fail)

FindOneAndReplace ==
    \E q \in Queries, i \in Ids, v \in Vals, fail \in BOOLEAN :
        find_one_and_replace(self, q, Construct(i, v), fail)

FindOneAndUpsert ==
    \E q \in Queries, i \in Ids, v \in Vals, fail \in BOOLEAN :
        find_one_and_upsert(self, q, Construct(i, v), fail)

FindOneAndUpdate ==
    \E q \in Queries, m \in Vals, fail \in BOOLEAN :
        find_one_and_update(self, q, m, fail)

Next ==
    \/ InsertOne
    \/ DeleteOne
    \/ ReplaceOne
    \/ Get
    \/ FindOne
    \/ FindOneAndDelete
    \/ FindOneAndReplace
    \/ FindOneAndUpsert
    \/ FindOneAndUpdate

Spec == Init /\ [][Next]_vars

(***************************************************************************)
(* Streaming reads: the caller's Collection is written to while Cursors    *)
(* over it are open.                                                       *)
(***************************************************************************)
FindMany ==
    \E q \in Queries, fail \in BOOLEAN : find_many(self, q, fail)

PollNext ==
    \E polled \in {"item", "error", "pending"}, consumed \in BOOLEAN :
        poll_next(polled, consumed)

NextCursor ==
    \/ InsertOne
    \/ Delete
    \/ FindMany
    \/ PollNext

SpecCursor == Init /\ [][NextCursor]_vars

(***************************************************************************)
(* The default Client and the records' fallback to it.                     *)
(***************************************************************************)
NextModel ==
    \/ GenerateCollectionName
    \/ GenerateSchema
    \/ FromDocument
    \/ AsGlobal
    \/ CollectionNew
    \/ ConstructRecord
    \/ WrapRecord
    \/ ModelCollection

SpecModel == Init /\ [][NextModel]_vars

(***************************************************************************)
(* One caller keeping records: it inserts, reads back, saves and deletes   *)
(* through its Collection, and saves records through Model::save.          *)
(***************************************************************************)
Save ==
    \E i \in Ids, v \in Vals, failProbe \in BOOLEAN, failWrite \in BOOLEAN :
        save(self, Construct(i, v), failProbe, failWrite)

\* The records the caller can have at hand: those it constructs and the one
\* the last operation returned.
Held ==
    {Construct(i, v) : i \in Ids, v \in Vals}
        \cup (IF IsSome(result.value) THEN {result.value.value} ELSE {})

ModelSave ==
    \E r \in Held, failProbe \in BOOLEAN, failWrite \in BOOLEAN :
        Model_save(r, failProbe, failWrite)

NextRecord ==
    \/ AsGlobal
    \/ InsertOne
    \/ Get
    \/ Delete
    \/ Save
    \/ ModelSave

SpecRecord == Init /\ [][NextRecord]_vars

(***************************************************************************)
(* Concurrent replace_or_insert_one calls on the caller's Collection, each *)
(* keyed by its document's identity: a call's probe and its write are      *)
(* separate store calls, and other calls' store calls come in between.     *)
(***************************************************************************)
InitUpsert ==
    /\ MANOR_CLIENT = None
    /\ self \in Collections
    /\ \E docs \in {{}} \cup {{to_document(Construct(i, v))} :
                                i \in Ids, v \in Vals} :
          store = [c \in Clients |-> [n \in CollNames |->
                    IF c = self.client /\ n = collection_name
                    THEN docs ELSE {}]]
    /\ rec = None
    /\ cursor = None
    /\ link = [collection |-> collection_name, id |-> 1,
               resolved |-> None, client |-> None]
    /\ resolveQueries = 0
    /\ resolveHits = 0
    /\ result = Res("init", "Ok", None, None, None, <<>>)
    /\ tasks \in [Tasks -> {[NoTask EXCEPT !.pc = "probe",
                                           !.document = Some(Construct(i, v))] :
                                i \in Ids, v \in Vals}]
    /\ bucket = {}
    /\ writer = None

\* The first await of replace_or_insert_one: the probe and the test on it.
Probe(t) ==
    /\ tasks[t].pc = "probe"
    /\ \E failProbe \in BOOLEAN :
        \E p \in StoreFindOne(DocsOf(self), ById(tasks[t].document.value.id)) :
            tasks' = [tasks EXCEPT
                        ![t].pc = "write",
                        ![t].hit = probe_hit(failProbe, p.found),
                        ![t].failed = IF failProbe THEN {1} ELSE {}]
    /\ UNCHANGED <<MANOR_CLIENT, self, store, rec, cursor, link, resolveQueries,
                   resolveHits, result,
                   bucket, writer>>

\* Its second await, the write, and its return.
Write(t) ==
    /\ tasks[t].pc = "write"
    /\ LET r == tasks[t].document.value
           calls == <<Call("find_one", self),
                      Call(write_call(tasks[t].hit), self)>>
       IN  \E failWrite \in BOOLEAN :
           \E w \in write_outcomes(DocsOf(self), ById(r.id), r, tasks[t].hit) :
               IF failWrite \/ w.err
               THEN /\ store' = store
                    /\ tasks' = [tasks EXCEPT
                                   ![t].pc = "done",
                                   ![t].status = "MongoError",
                                   ![t].failed = @ \cup {2},
                                   ![t].duplicate = ~failWrite]
                    /\ result' = CalledWith(
                           [Res("replace_or_insert_one", "MongoError", None,
                                None, None, calls)
                               EXCEPT !.failed = tasks[t].failed \cup {2}],
                           Some(ById(r.id)), Some(r))
               ELSE /\ store' = StoreWith(self, w.docs)
                    /\ tasks' = [tasks EXCEPT ![t].pc = "done",
                                              ![t].status = "Ok"]
                    /\ result' = CalledWith(
                           [Res("replace_or_insert_one", "Ok", None, None,
                                None, calls)
                               EXCEPT !.failed = tasks[t].failed],
                           Some(ById(r.id)), Some(r))
    /\ UNCHANGED <<MANOR_CLIENT, self, rec, cursor, link, resolveQueries,
                   resolveHits,
                   bucket, writer>>

NextUpsert ==
    \E t \in Tasks :
        \/ Probe(t)
        \/ Write(t)

SpecUpsert == InitUpsert /\ [][NextUpsert]_vars

(***************************************************************************)
(* Every way a Collection comes into the caller's hands: from a Client,    *)
(* from the default Client, as the back-reference of a record it wrapped   *)
(* or read back, and as the back-reference of a record a Cursor yielded.   *)
(***************************************************************************)
\* The caller inserts a record, opens a Cursor over the whole collection
\* and pulls the next record from it.
StoreRecord ==
    \E i \in Ids : insert_one(self, Construct(i, CHOOSE v \in Vals : TRUE), FALSE)

FindAll == find_many(self, All, FALSE)

PullRecord == poll_next("item", TRUE)

NextCollections ==
    \/ AsGlobal
    \/ CollectionNew
    \/ ConstructRecord
    \/ WrapRecord
    \/ ModelCollection
    \/ FromDocument
    \/ StoreRecord
    \/ FindAll
    \/ PullRecord

SpecCollections == Init /\ [][NextCollections]_vars

(***************************************************************************)
(* One caller writing through replace_or_insert_one with any query.        *)
(***************************************************************************)
ReplaceOrInsertOne ==
    \E q \in Queries, i \in Ids, v \in Vals,
       failProbe \in BOOLEAN, failWrite \in BOOLEAN :
        replace_or_insert_one(self, q, Construct(i, v), failProbe, failWrite)

NextReplaceOrInsert ==
    \/ InsertOne
    \/ DeleteOne
    \/ ReplaceOrInsertOne

SpecReplaceOrInsert == Init /\ [][NextReplaceOrInsert]_vars

(***************************************************************************)
(* One caller saving and deleting the record it holds through Model::save  *)
(* and Model::delete, the record wrapped by a Collection or not, with or   *)
(* without a default Client.  Model::delete takes a clone of the record.   *)
(***************************************************************************)
SaveRecord ==
    /\ IsSome(rec)
    /\ \E failProbe \in BOOLEAN, failWrite \in BOOLEAN :
            Model_save(rec.value, failProbe, failWrite)

DeleteRecord ==
    /\ IsSome(rec)
    /\ \E fail \in BOOLEAN : Model_delete(rec.value, fail)

NextModelStore ==
    \/ AsGlobal
    \/ ConstructRecord
    \/ WrapRecord
    \/ SaveRecord
    \/ DeleteRecord

SpecModelStore == Init /\ [][NextModelStore]_vars

(***************************************************************************)
(* GridFS.  The bucket's files collection holds one document per stored    *)
(* file; the upload stream writes that document when it is closed.         *)
(***************************************************************************)
Filenames == {"f", "g"}
Metadatas == {None, Some("m")}
Dates == {"d1"}
FileIds == {"u1", "u2"}
chunk_size_bytes == "255 KiB"

\* Client::grid_fs: the default bucket of a Client.
grid_fs(client) == [client |-> client, name |-> "default"]

\* A call on the bucket as a test double would log it.
BucketCall(op, fs) ==
    [op |-> op, ns |-> [database |-> database(fs.client), name |-> fs.name]]

\* The GridFile that GridFS::upload and upload_with_metadata build.
GridFile(i, filename, metadata, fs) ==
    [id |-> i, filename |-> filename, details |-> None, fs |-> Some(fs),
     metadata |-> metadata]

\* GridFile::write: opens the upload stream under the file's id.
GridFile_write(file, fail) ==
    /\ writer' = IF fail
                 THEN writer
                 ELSE Some([file |-> file, fs |-> file.fs.value, length |-> 0])
    /\ result' = IF fail
                 THEN Failed(Res("upload", "MongoError", None, None, None,
                                 <<BucketCall("open_upload_stream",
                                              file.fs.value)>>), 1)
                 ELSE Res("upload", "Ok", Some(file), None, None,
                          <<BucketCall("open_upload_stream", file.fs.value)>>)
    /\ UNCHANGED <<MANOR_CLIENT, self, store, rec, cursor, link, resolveQueries,
                   resolveHits, tasks, bucket>>

\* GridFS::upload and GridFS::upload_with_metadata: Uuid::new_v4() is any
\* identity.
upload(fs, filename, metadata, fail) ==
    \E i \in FileIds :
        GridFile_write(GridFile(i, filename, metadata, fs), fail)

\* AsyncWrite::poll_write on the GridWriter: the stream takes one more
\* byte.
poll_write ==
    /\ IsSome(writer)
    /\ writer.value.length < MaxLength
    /\ writer' = Some([writer.value EXCEPT !.length = @ + 1])
    /\ result' = Res("poll_write", "Ok", None, None, None, <<>>)
    /\ UNCHANGED <<MANOR_CLIENT, self, store, rec, cursor, link, resolveQueries,
                   resolveHits, tasks, bucket>>

\* The files document the upload stream writes when it is closed.
FilesDoc(w, date) ==
    [_id |-> w.file.id, filename |-> w.file.filename,
     metadata |-> w.file.metadata, length |-> w.length,
     chunk_size_bytes |-> chunk_size_bytes, upload_date |-> date]

\* FileDetails as commit and fetch fill it from a files document.
FileDetails(info) ==
    Some([length |-> info.length, chunk_size_bytes |-> info.chunk_size_bytes,
          upload_date |-> info.upload_date])

\* GridFS::delete
GridFS_delete(fs, i, fail) ==
    /\ bucket' = IF fail THEN bucket ELSE {d \in bucket : d._id # i}
    /\ result' = IF fail \/ \A d \in bucket : d._id # i
                 THEN Failed(Res("grid_delete", "MongoError", None, None, None,
                                 <<BucketCall("delete", fs)>>), 1)
                 ELSE Res("grid_delete", "Ok", None, None, None,
                          <<BucketCall("delete", fs)>>)
    /\ UNCHANGED <<MANOR_CLIENT, self, store, rec, cursor, link, resolveQueries,
                   resolveHits, tasks, writer>>

\* commit with the bucket queried whether or not the stream closed.
commit_query_anyway(failClose, failFind, lost) ==
    /\ IsSome(writer)
    /\ LET w == writer.value
           taken == \E d \in bucket : d._id = w.file.id
           closed == ~(failClose \/ taken)
           calls == <<BucketCall("close", w.fs), BucketCall("find_one", w.fs)>>
       IN  \E date \in Dates :
            LET written == IF closed THEN bucket \cup {FilesDoc(w, date)}
                           ELSE bucket
                after == IF lost THEN {d \in written : d._id # w.file.id}
                         ELSE written
                info == {d \in after : d._id = w.file.id}
            IN  /\ bucket' = after
                /\ result' =
                    [IF failFind
                     THEN Res("commit", "MongoError", None, None, None, calls)
                     ELSE IF info = {}
                     THEN Res("commit", "NotFound", None, None, None, calls)
                     ELSE Res("commit", "Ok",
                              Some([w.file EXCEPT !.details =
                                       FileDetails(CHOOSE d \in info : TRUE)]),
                              None, None, calls)
                        EXCEPT !.failed = (IF closed THEN {} ELSE {1})
                                    \cup (IF failFind THEN {2} ELSE {})]
    /\ writer' = None
    /\ UNCHANGED <<MANOR_CLIENT, self, store, rec, cursor, link, resolveQueries,
                   resolveHits, tasks>>

\* GridWriter::commit.  failClose and failFind say whether the stream's
\* close and the bucket's find_one fail; closing also fails when the
\* bucket already has a file of this identity; lost says whether another
\* caller deletes the file between the two awaits.
commit(failClose, failFind, lost) ==
    /\ IsSome(writer)
    /\ LET w == writer.value
           taken == \E d \in bucket : d._id = w.file.id
           calls == <<BucketCall("close", w.fs), BucketCall("find_one", w.fs)>>
       IN  IF failClose \/ taken
           THEN /\ bucket' = bucket
                /\ result' = Failed(Res("commit", "WriteFailure", None, None,
                                        None, <<BucketCall("close", w.fs)>>), 1)
           ELSE \E date \in Dates :
                LET written == bucket \cup {FilesDoc(w, date)}
                    after == IF lost
                             THEN {d \in written : d._id # w.file.id}
                             ELSE written
                    info == {d \in after : d._id = w.file.id}
                IN  /\ bucket' = after
                    /\ result' =
                        IF failFind
                        THEN Failed(Res("commit", "MongoError", None, None,
                                        None, calls), 2)
                        ELSE IF info = {}
                        THEN Res("commit", "NotFound", None, None, None, calls)
                        ELSE Res("commit", "Ok",
                                 Some([w.file EXCEPT !.details =
                                          FileDetails(CHOOSE d \in info : TRUE)]),
                                 None, None, calls)
    /\ writer' = None
    /\ UNCHANGED <<MANOR_CLIENT, self, store, rec, cursor, link, resolveQueries,
                   resolveHits, tasks>>

\* The caller's bucket is the default bucket of its Collection's Client.
Upload ==
    \E filename \in Filenames, metadata \in Metadatas, fail \in BOOLEAN :
        upload(grid_fs(self.client), filename, metadata, fail)

PollWrite == poll_write

Commit ==
    \E failClose \in BOOLEAN, failFind \in BOOLEAN, lost \in BOOLEAN :
        commit(failClose, failFind, lost)

GridDelete ==
    \E i \in FileIds, fail \in BOOLEAN :
        GridFS_delete(grid_fs(self.client), i, fail)

NextGrid ==
    \/ Upload
    \/ PollWrite
    \/ Commit
    \/ GridDelete

SpecGrid == Init /\ [][NextGrid]_vars

(***************************************************************************)
(* A Link, built from the wire or from a record, resolved and refreshed    *)
(* while other writers insert, change and delete the document it refers    *)
(* to, in either database.                                                 *)
(***************************************************************************)
InitLink ==
    /\ MANOR_CLIENT = None
    /\ self \in Collections
    /\ store = [c \in Clients |-> [n \in CollNames |-> {}]]
    /\ rec = None
    /\ cursor = None
    /\ link \in {Link_deserialize(n, i) : n \in CollNames, i \in Ids}
                \cup {Link_from(r) : r \in Records}
    /\ resolveQueries = 0
    /\ resolveHits = 0
    /\ result = Res("init", "Ok", None, None, None, <<>>)
    /\ tasks = [t \in Tasks |-> NoTask]
    /\ bucket = {}
    /\ writer = None

WithClient ==
    /\ \E c \in Clients : link' = with_client(link, c)
    /\ result' = Res("with_client", "Ok", None, None, None, <<>>)
    /\ UNCHANGED <<MANOR_CLIENT, self, store, rec, cursor, resolveQueries,
                   resolveHits, tasks,
                   bucket, writer>>

\* The Link goes through its wire form, as when the record holding it is
\* stored and read back.
SerializeDeserialize ==
    /\ LET wire == Link_serialize(link)
       IN  /\ link' = Link_deserialize(wire.collection, wire.id)
           /\ result' = CalledWith(
                  Res("serialize_deserialize", "Ok", Some(wire), None, None,
                      <<>>), None, Some(link))
    /\ resolveQueries' = 0
    /\ resolveHits' = 0
    /\ UNCHANGED <<MANOR_CLIENT, self, store, rec, cursor, tasks,
                   bucket, writer>>

\* The caller builds the Link anew from a record it has in memory.
LinkFrom ==
    /\ \E r \in Records :
        /\ r.id = link.id
        /\ link' = Link_from(r)
        /\ result' = CalledWith(Res("from", "Ok", None, None, None, <<>>),
                                None, Some(r))
    /\ resolveQueries' = 0
    /\ resolveHits' = 0
    /\ UNCHANGED <<MANOR_CLIENT, self, store, rec, cursor, tasks,
                   bucket, writer>>

Resolve == \E fail \in BOOLEAN : resolve(fail)

Refresh == \E fail \in BOOLEAN : refresh(fail)

WriterInsert ==
    \E coll \in Collections, v \in Vals, fail \in BOOLEAN :
        insert_one(coll, Construct(link.id, v), fail)

WriterReplace ==
    \E coll \in Collections, v \in Vals, fail \in BOOLEAN :
        replace_one(coll, ById(link.id), Construct(link.id, v), fail)

WriterDelete ==
    \E coll \in Collections, fail \in BOOLEAN :
        delete_one(coll, ById(link.id), fail)

NextLink ==
    \/ LinkFrom
    \/ SerializeDeserialize
    \/ AsGlobal
    \/ WithClient
    \/ Resolve
    \/ Refresh
    \/ WriterInsert
    \/ WriterReplace
    \/ WriterDelete

SpecLink == InitLink /\ [][NextLink]_vars

(***************************************************************************)
(* Properties of the collection layer (Spec).                              *)
(***************************************************************************)
\* C1: a delete_one step to which the store reports a count of 0 returns
\* NotFound and leaves the store as it was; one to which the store reports
\* a count of 1 returns Ok.
C1_DeleteOneZeroOrOne ==
    [][(result'.op = "delete_one" /\ IsSome(result'.reported)) =>
         /\ result'.reported.value = 0 =>
              (result'.status = "NotFound" /\ store' = store)
         /\ result'.reported.value = 1 => result'.status = "Ok"]_vars

\* delete_one found nothing to delete in a collection that holds documents.
C1_Witness ==
    /\ result.op = "delete_one"
    /\ result.reported = Some(0)
    /\ result.status = "NotFound"
    /\ DocsOf(self) # {}

\* C2: when the store reports a delete count other than 0 or 1, delete_one
\* returns a failure that is neither Ok nor NotFound.
C2_UnexpectedCountIsIntegrityFailure ==
    (/\ result.op = "delete_one"
     /\ IsSome(result.reported)
     /\ result.reported.value \notin {0, 1})
        => result.status \notin {"Ok", "NotFound"}

\* The operations of Collection that return a single record.
SingleReads ==
    {"get", "find_one", "find_one_and_delete", "find_one_and_replace",
     "find_one_and_upsert", "find_one_and_update"}

\* C10: every record a single-record read returns carries a back-reference
\* to the Collection that returned it.
C10_SingleReadsCarryBackReference ==
    (/\ result.op \in SingleReads
     /\ result.status = "Ok"
     /\ IsSome(result.value))
        => own_collection(result.value.value) = Some(self)

(***************************************************************************)
(* Properties of the default Client and of Model::collection (SpecModel).  *)
(***************************************************************************)
\* C7: the default Client is None until the first as_global, which
\* publishes its Client; every later as_global panics and leaves the
\* published Client in place; once published, the Client that global()
\* returns never changes.
C7_DefaultClientSingleAssignment ==
    /\ global = None
    /\ [][/\ (MANOR_CLIENT = None /\ IsSome(MANOR_CLIENT')) =>
                (result'.op = "as_global" /\ result'.status = "Ok")
          /\ (result'.op = "as_global" /\ MANOR_CLIENT = None) =>
                (result'.status = "Ok" /\ IsSome(MANOR_CLIENT'))
          /\ (result'.op = "as_global" /\ IsSome(MANOR_CLIENT)) =>
                result'.status = "Panic"
          /\ IsSome(MANOR_CLIENT) => MANOR_CLIENT' = MANOR_CLIENT
          /\ (result'.op = "new" /\ IsSome(MANOR_CLIENT)) =>
                result'.coll = Some(ClientCollection(MANOR_CLIENT.value))]_vars

\* A second as_global has panicked with a Client published.
C7_Witness ==
    /\ result.op = "as_global"
    /\ result.status = "Panic"
    /\ IsSome(global)

\* C8: Model::collection returns the record's own Collection when it has
\* one, whether or not a default Client is published; otherwise the
\* Collection of the default Client; it panics only when there is neither.
C8_CollectionFallbackOrder ==
    result.op = "collection" =>
        LET r == rec.value
        IN  /\ IsSome(own_collection(r)) =>
                 (result.status = "Ok" /\ result.coll = own_collection(r))
            /\ (~IsSome(own_collection(r)) /\ IsSome(global)) =>
                 /\ result.status = "Ok"
                 /\ result.coll = Some(ClientCollection(global.value))
            /\ (~IsSome(own_collection(r)) /\ global = None) =>
                 result.status = "Panic"

\* A record with a back-reference gave its Collection with no default
\* Client published.
C8_Witness ==
    /\ result.op = "collection"
    /\ result.status = "Ok"
    /\ IsSome(rec)
    /\ IsSome(own_collection(rec.value))
    /\ global = None

(***************************************************************************)
(* Properties of the Cursor (SpecCursor).                                  *)
(***************************************************************************)
\* C9: every record a Cursor yields as Ok carries a back-reference whose
\* collection name and Client are those of the Collection find_many was
\* called on.
C9_CursorTagsEveryRecord ==
    (/\ result.op = "poll_next"
     /\ result.status = "Ok")
        => /\ IsSome(result.value)
           /\ IsSome(own_collection(result.value.value))
           /\ LET back == own_collection(result.value.value).value
              IN  /\ name(back) = name(self)
                  /\ back.client = self.client

\* A record was yielded after an Err item of the same Cursor.
C9_Witness ==
    /\ result.op = "poll_next"
    /\ result.status = "Ok"
    /\ IsSome(cursor)
    /\ cursor.value.erred
    /\ own_collection(result.value.value) = Some(self)

(***************************************************************************)
(* Properties of Link (SpecLink).                                          *)
(***************************************************************************)
\* The Client a Link is documented to use: its own if it has one, else the
\* default; None when it has neither.
DocumentedClient(l) == IF IsSome(l.client) THEN l.client ELSE global

\* The documents with the Link's identity in the collection it is
\* documented to query.
TargetDocs(l) ==
    Matching(DocsOf(ClientCollection(DocumentedClient(l).value)), ById(l.id))

\* A resolve() step on a Link with a cached value returns that value,
\* issues no store call and leaves the Link as it was.
ResolveReturnsCache ==
    (result'.op = "resolve" /\ IsSome(value(link))) =>
        /\ result'.status = "Ok"
        /\ result'.value = value(link)
        /\ result'.calls = <<>>
        /\ link' = link

\* C3 as stated: over the resolve() calls on one Link since it was built or
\* last refreshed at most one store query is issued, and a resolve() on a
\* cached value returns it without I/O.
C3_AtMostOneQuery ==
    /\ [](resolveQueries <= 1)
    /\ [][ResolveReturnsCache]_vars

\* C3 as amended: over the resolve() calls on one Link since it was built or
\* last refreshed at most one store query finds the document, and a
\* resolve() on a cached value returns it without I/O, whatever the store
\* holds by then.
C3_AtMostOneHit ==
    /\ [](resolveHits <= 1)
    /\ [][ResolveReturnsCache]_vars

\* resolve() has returned the value an earlier resolve() fetched, with no
\* store call, while the collection it would query no longer holds that
\* document.
C3_Witness ==
    /\ result.op = "resolve"
    /\ result.status = "Ok"
    /\ result.calls = <<>>
    /\ resolveHits = 1
    /\ IsSome(DocumentedClient(link))
    /\ to_document(result.value.value) \notin TargetDocs(link)

C5_RefreshAlwaysQueries ==
    [][(result'.op = "refresh" /\ IsSome(DocumentedClient(link))) =>
         /\ Len(result'.calls) = 1
         /\ (result'.status # "MongoError" /\ TargetDocs(link) # {})
              => /\ result'.status = "Ok"
                 /\ value(link') = result'.value
                 /\ to_document(result'.value.value) \in TargetDocs(link)
         /\ (result'.status # "MongoError" /\ TargetDocs(link) = {})
              => /\ result'.status = "NotFound"
                 /\ value(link') = value(link)]_vars

\* C6: a lookup by a Link that has a Client of its own goes to that
\* Client's collection and does not panic, whether or not a default Client
\* is published; a lookup panics only when the Link has no Client of its
\* own and no default is published.
C6_OverrideNeedsNoDefault ==
    [][(/\ result'.op \in {"resolve", "refresh"}
        /\ (result'.op = "refresh" \/ ~IsSome(value(link))))
          => /\ IsSome(link.client) =>
                  /\ result'.status # "Panic"
                  /\ result'.calls =
                       <<Call("get", ClientCollection(link.client.value))>>
             /\ result'.status = "Panic" =>
                  (~IsSome(link.client) /\ global = None)]_vars

(***************************************************************************)
(* The life of a record in one caller's hands.                             *)
(***************************************************************************)
\* get(i) on the caller's Collection came back without a store failure.
GotBack(res, i) ==
    /\ res.op = "get" /\ res.status = "Ok"
    /\ res.args.query = Some(ById(i))

\* delete(r) for a record of identity i on the caller's Collection.
Deleted(res, i) ==
    /\ res.op = "delete_one"
    /\ res.args.query = Some(ById(i))

\* C11: for a single caller, a get(r.id) right after a successful
\* insert_one(r) returns Some record with r's identity and declared fields;
\* a get(r.id) right after a successful delete(r) returns None; and a
\* delete(r) that follows a successful delete(r), directly or after a get
\* that found nothing, returns NotFound.
C11_InsertGetDeleteGet ==
    [][\A i \in Ids :
        /\ (/\ result.op = "insert_one" /\ result.status = "Ok"
            /\ result.args.document.value.id = i
            /\ GotBack(result', i))
           => /\ IsSome(result'.value)
              /\ result'.value.value.id = i
              /\ result'.value.value.val = result.args.document.value.val
        /\ (Deleted(result, i) /\ result.status = "Ok" /\ GotBack(result', i))
           => result'.value = None
        /\ (/\ \/ Deleted(result, i) /\ result.status = "Ok"
               \/ GotBack(result, i) /\ result.value = None
            /\ Deleted(result', i) /\ result'.failed = {})
           => result'.status = "NotFound"]_vars

\* A delete of a record whose document the Collection does not hold, next to
\* another record's document, was refused.
C11_Witness ==
    /\ Deleted(result, 1) /\ result.status = "NotFound"
    /\ result.reported = Some(0)
    /\ \A d \in DocsOf(self) : d._id # 1
    /\ DocsOf(self) # {}

(***************************************************************************)
(* Concurrent replace_or_insert_one.                                       *)
(***************************************************************************)
\* Calls a and b are for the same identity, both probed without a store
\* failure and saw no document, and both have returned from the insert
\* they went on to, neither insert failing for another reason than the
\* identity being taken.
BothSawAbsent(a, b) ==
    /\ a # b
    /\ tasks[a].pc = "done" /\ tasks[b].pc = "done"
    /\ tasks[a].document.value.id = tasks[b].document.value.id
    /\ ~tasks[a].hit /\ ~tasks[b].hit
    /\ 1 \notin tasks[a].failed /\ 1 \notin tasks[b].failed
    /\ \A t \in {a, b} : tasks[t].status = "MongoError" => tasks[t].duplicate

\* C12: when two concurrent replace_or_insert_one calls for one identity
\* have both seen it absent and both attempted the insert, exactly one of
\* them returned Ok, the other returned the store's duplicate-key failure,
\* and the store holds exactly one document of that identity.
C12_BothInsertOneWins ==
    \A a \in Tasks, b \in Tasks :
        BothSawAbsent(a, b) =>
            /\ \/ tasks[a].status = "Ok" /\ tasks[b].status = "MongoError"
                  /\ tasks[b].duplicate
               \/ tasks[b].status = "Ok" /\ tasks[a].status = "MongoError"
                  /\ tasks[a].duplicate
            /\ Cardinality({d \in DocsOf(self) :
                            d._id = tasks[a].document.value.id}) = 1

\* Both calls saw the identity absent, with different field values to
\* write, and both have returned.
C12_Witness ==
    /\ BothSawAbsent("t1", "t2")
    /\ tasks["t1"].document # tasks["t2"].document
    /\ tasks["t2"].status = "Ok"

(***************************************************************************)
(* save                                                                    *)
(***************************************************************************)
\* The documents of the collection the store calls of res went to.
WrittenTo(st, res) == st[res.calls[1].ns.database][res.calls[1].ns.name]

\* C13: with no concurrent writers, after save(r) succeeds the collection
\* saved to holds exactly one document of identity r.id and its declared
\* fields are r's; saving r again right after, into the same collection,
\* succeeds and leaves the store unchanged; and saving a record that
\* get has just returned succeeds and leaves the store unchanged (store
\* failures apart).
C13_SaveExactlyOnce ==
    [][result'.op = "save" =>
        LET r == result'.args.document.value
        IN  /\ result'.status = "Ok" =>
                 {d \in WrittenTo(store', result') : d._id = r.id}
                     = {to_document(r)}
            /\ (/\ result.op = "save" /\ result.status = "Ok"
                /\ result.args.document = Some(r)
                /\ result'.calls # <<>>
                /\ result'.calls[1].ns = result.calls[1].ns
                /\ result'.failed = {})
               => result'.status = "Ok" /\ store' = store
            /\ (/\ result.op = "get" /\ result.status = "Ok"
                /\ result.value = Some(r)
                /\ result'.failed = {})
               => result'.status = "Ok" /\ store' = store]_vars

\* C14: whenever a store call issued by a Collection operation fails, the
\* operation returns the failure as an error and the failed call is the
\* last store call it issued; so a failed probe of replace_or_insert_one
\* or save is not followed by an insert or a replace.
C14_FailurePropagates ==
    \A k \in result.failed :
        /\ result.status = "MongoError"
        /\ k = Len(result.calls)

(***************************************************************************)
(* The Cursor against the driver's cursor it wraps.                        *)
(***************************************************************************)
\* C15: a pull of the Cursor yields what the driver's cursor yields: an
\* item is the driver's next document, in the driver's order, and takes
\* exactly that document off the driver's cursor; an error of the driver
\* is yielded as an Err item and leaves the documents after it to be
\* pulled; end-of-sequence is yielded exactly when the driver's cursor is
\* exhausted; a pending pull takes nothing.
C15_CursorMirrorsUnderlying ==
    [][result'.op = "poll_next" =>
        LET base == cursor.value.base
            rest == cursor'.value.base
        IN  /\ IsSome(cursor) /\ IsSome(cursor')
            /\ cursor'.value.collection = cursor.value.collection
            /\ result'.status \in {"Ok", "MongoError", "End", "Pending"}
            /\ result'.status = "Ok" =>
                 /\ base # <<>>
                 /\ to_document(result'.value.value) = Head(base)
                 /\ rest = Tail(base)
            /\ result'.status = "MongoError" =>
                 /\ base # <<>>
                 /\ result'.value = None
                 /\ rest \in {base, Tail(base)}
            /\ result'.status = "End" => base = <<>> /\ rest = <<>>
            /\ (base = <<>> /\ result'.status # "Pending") =>
                 result'.status = "End"
            /\ result'.status = "Pending" => rest = base]_vars

\* After an Err item the Cursor yielded the driver's next document, with
\* more documents still to come.
C15_Witness ==
    /\ IsSome(cursor) /\ cursor.value.erred
    /\ cursor.value.base # <<>>
    /\ result.op = "poll_next" /\ result.status = "Ok"

(***************************************************************************)
(* A Link on the wire, and a Link built from a record.                     *)
(***************************************************************************)
\* C16: the wire form of a Link has the collection name and the identity
\* and nothing else, whatever the Link had cached or been given as its
\* Client; the Link read back from it has the same collection name and
\* identity, no cached value and no Client of its own.
C16_LinkWireForm ==
    [][result'.op = "serialize_deserialize" =>
        LET wire == result'.value.value
        IN  /\ DOMAIN wire = {"collection", "id"}
            /\ wire.collection = link.collection
            /\ wire.id = link.id
            /\ link'.collection = link.collection
            /\ link'.id = link.id
            /\ value(link') = None
            /\ link'.client = None]_vars

\* A Link with a cached value and a Client of its own went through the
\* wire form.
C16_Witness ==
    /\ result.op = "serialize_deserialize"
    /\ IsSome(value(result.args.document.value))
    /\ IsSome(result.args.document.value.client)
    /\ value(link) = None
    /\ link.client = None

\* C17: a Link built from a record with From<M> has that record cached,
\* the record's identity, the collection name collection_name() and no
\* Client of its own; resolve() on it returns that record and issues no
\* store call, whether or not the record was ever saved.
C17_LinkFromRecord ==
    [][/\ result'.op = "from" =>
            LET r == result'.args.document.value
            IN  /\ value(link') = Some(r)
                /\ link'.id = r.id
                /\ link'.collection = collection_name
                /\ link'.client = None
       /\ (result.op = "from" /\ result'.op = "resolve") =>
            /\ result'.status = "Ok"
            /\ result'.value = result.args.document
            /\ result'.calls = <<>>
            /\ store' = store
            /\ link' = link]_vars

\* resolve() returned the record a Link was built from, with no default
\* Client published and no document of that identity in any store.
C17_Witness ==
    /\ result.op = "resolve" /\ result.status = "Ok"
    /\ result.calls = <<>>
    /\ result.value = value(link)
    /\ MANOR_CLIENT = None
    /\ \A c \in Clients : \A d \in store[c][collection_name] : d._id # link.id

\* C18: every store call resolve() and refresh() issue goes to the
\* collection named collection_name(), whatever the Link's collection
\* string says.
C18_LookupInModelCollection ==
    result.op \in {"resolve", "refresh"} =>
        \A k \in 1 .. Len(result.calls) :
            name([collection |-> result.calls[k].ns]) = collection_name

\* A Link whose collection string names another collection was looked up
\* in the store.
C18_Witness ==
    /\ result.op \in {"resolve", "refresh"}
    /\ result.calls # <<>>
    /\ result.status = "Ok"
    /\ link.collection # collection_name

(***************************************************************************)
(* Generated records and their wire form.                                  *)
(***************************************************************************)
\* C19: a record serialized and read back with from_document has the same
\* identity and declared fields; its back-reference is the Collection
\* from_document was given, and absent when none was given, whatever
\* back-reference the original had.
C19_RecordRoundTrip ==
    [][result'.op = "from_document" =>
        /\ IsSome(rec) /\ IsSome(rec')
        /\ rec'.value.id = rec.value.id
        /\ rec'.value.val = rec.value.val
        /\ own_collection(rec'.value) = result'.coll
        /\ result'.value = rec']_vars

\* A record with a back-reference was read back without one.
C19_Witness ==
    /\ result.op = "from_document"
    /\ IsSome(own_collection(result.args.document.value))
    /\ result.coll = None
    /\ IsSome(rec) /\ own_collection(rec.value) = None

\* The key the wire form has for the generated field named ident, None if
\* it has none.
KeyOf(generated, ident) ==
    LET keys == wire_keys(generated)
    IN  IF \E k \in DOMAIN keys : generated[k].ident = ident
        THEN Some(keys[CHOOSE k \in DOMAIN keys : generated[k].ident = ident])
        ELSE None

\* The name of the identity field of the struct generated from a template.
IdentityOf(template) ==
    IF \E k \in DOMAIN template : template[k].id
    THEN template[CHOOSE k \in DOMAIN template : template[k].id].ident
    ELSE "id"

\* C20: in the wire form of a generated record the identity is under
\* "_id", a field that is not the identity and is marked with an alias is
\* under that alias, every other declared field is under its declared
\* name, and the back-reference is not there.
C20_WireKeys ==
    result.op = "schema" =>
        LET template == result.args.document.value
            generated == result.value.value
        IN  /\ KeyOf(generated, IdentityOf(template)) = Some("_id")
            /\ \A k \in DOMAIN template :
                 ~template[k].id =>
                    KeyOf(generated, template[k].ident) =
                        IF IsSome(template[k].alias)
                        THEN template[k].alias
                        ELSE Some(template[k].ident)
            /\ KeyOf(generated, "_collection") = None

\* C21: the generated collection_name() is the `collection` argument as it
\* was written when there is one, and otherwise the snake-case folding of
\* the type name, with AaAa giving aa_aa.
C21_CollectionName ==
    result.op = "collection_name" =>
        LET arg == result.args.query
            schema_name == result.args.document.value
        IN  /\ IsSome(arg) => result.value = arg
            /\ arg = None =>
                 /\ result.value = Some(to_case_snake(schema_name))
                 /\ \A k \in DOMAIN result.value.value :
                        result.value.value[k] \in {"a", "_"}
                 /\ schema_name = <<"A", "a", "A">> =>
                        result.value = Some(<<"a", "a", "_", "a">>)

(***************************************************************************)
(* GridFS.                                                                 *)
(***************************************************************************)
\* C22: commit closes the upload stream first and queries the bucket only
\* after that: a failed close returns WriteFailure with no query made; a
\* query that finds no file of the Writer's identity returns NotFound; on
\* success the File returned has the details of the stored file (length,
\* chunk size, upload time) and the identity, filename and metadata of the
\* Writer's File.  The File of a Writer opened by upload has no details.
C22_CommitClosesThenFetches ==
    [][/\ (result'.op = "upload" /\ result'.status = "Ok") =>
            /\ result'.value.value.details = None
            /\ writer'.value.file = result'.value.value
       /\ result'.op = "commit" =>
            LET w == writer.value
                close == BucketCall("close", w.fs)
                find_one_call == BucketCall("find_one", w.fs)
                held == {d \in bucket' : d._id = w.file.id}
            IN  /\ w.file.details = None
                /\ result'.calls \in {<<close>>, <<close, find_one_call>>}
                /\ 1 \in result'.failed =>
                     /\ result'.status = "WriteFailure"
                     /\ result'.calls = <<close>>
                     /\ bucket' = bucket
                /\ result'.status = "WriteFailure" => 1 \in result'.failed
                /\ result'.failed = {} =>
                     /\ result'.calls = <<close, find_one_call>>
                     /\ result'.status = IF held = {} THEN "NotFound" ELSE "Ok"
                /\ result'.status = "Ok" =>
                     LET file == result'.value.value
                     IN  /\ IsSome(file.details)
                         /\ \E d \in held :
                              /\ file.details.value.length = d.length
                              /\ file.details.value.chunk_size_bytes
                                    = d.chunk_size_bytes
                              /\ file.details.value.upload_date = d.upload_date
                         /\ file.details.value.length = w.length
                         /\ file.id = w.file.id
                         /\ file.filename = w.file.filename
                         /\ file.metadata = w.file.metadata]_vars

\* A commit returned a File with metadata and the length that was written.
C22_Witness ==
    /\ result.op = "commit" /\ result.status = "Ok"
    /\ IsSome(result.value.value.metadata)
    /\ result.value.value.details.value.length = MaxLength
    /\ writer = None

(***************************************************************************)
(* Collections.                                                            *)
(***************************************************************************)
\* The back-reference of an optional record, if it has one.
BackReferences(r) ==
    IF IsSome(r) /\ IsSome(own_collection(r.value))
    THEN {own_collection(r.value).value}
    ELSE {}

\* The Collections in the caller's hands.
HeldCollections ==
    {self}
        \cup (IF IsSome(result.coll) THEN {result.coll.value} ELSE {})
        \cup (IF IsSome(cursor) THEN {cursor.value.collection} ELSE {})
        \cup BackReferences(rec)
        \cup BackReferences(result.value)

\* The raw handle of coll is on the collection named collection_name() in
\* the database of coll's own Client.
OnOwnDatabase(coll) ==
    /\ coll.client \in Clients
    /\ coll.collection.database = database(coll.client)
    /\ name(coll) = collection_name

\* C23: every Collection the caller gets, from a Client, from the default
\* Client, or as the back-reference wrap, from_document or a Cursor put on
\* a record, has its raw handle on the collection named collection_name()
\* in the database of its own Client; and no operation changes the
\* caller's Collection, an open Cursor's Collection, or a record's
\* back-reference other than by attaching one.
C23_CollectionOnOwnDatabase ==
    /\ \A coll \in HeldCollections : OnOwnDatabase(coll)
    /\ [][/\ \A coll \in HeldCollections' : OnOwnDatabase(coll)
          /\ self' = self
          /\ (IsSome(cursor) /\ result'.op = "poll_next") =>
                cursor'.value.collection = cursor.value.collection
          /\ result'.op \notin {"construct", "wrap", "from_document"} =>
                rec' = rec]_vars

\* A Cursor yielded a record that carries the caller's Collection while
\* another Client is the default one.
C23_Witness ==
    /\ result.op = "poll_next" /\ result.status = "Ok"
    /\ own_collection(result.value.value) = Some(self)
    /\ IsSome(MANOR_CLIENT) /\ MANOR_CLIENT.value # self.client
    /\ IsSome(rec) /\ IsSome(own_collection(rec.value))
    /\ own_collection(rec.value) # Some(self)

(***************************************************************************)
(* The replace branch of replace_or_insert_one.                            *)
(***************************************************************************)
\* The step is a replace_or_insert_one call that returned Ok after its
\* probe hit and it issued replace_one.
ReplacedStep ==
    /\ result'.op = "replace_or_insert_one"
    /\ result'.status = "Ok"
    /\ result'.calls[2].op = "replace_one"

\* C24: a replace_or_insert_one(query, d) whose probe finds a matching
\* document rewrites one document that matched the query to d's fields
\* other than the identity, under the identity that document had; it adds
\* no document, the number of documents stays the same, and the documents
\* that did not match the query stay as they were.
C24_ReplaceKeepsIdentity ==
    [][ReplacedStep =>
        LET q == result'.args.query.value
            d == result'.args.document.value
            before == DocsOf(self)
            after == DocsOf(self)'
        IN  /\ Cardinality(after) = Cardinality(before)
            /\ {x._id : x \in after} = {x._id : x \in before}
            /\ \E m \in Matching(before, q) :
                    after = (before \ {m})
                              \cup {[_id |-> m._id, val |-> to_document(d).val]}
            /\ \A x \in before : ~MatchesDoc(q, x) => x \in after]_vars

\* replace_or_insert_one took its replace branch with two stored documents
\* matching the query: the one of identity 2 now has the fields of d, whose
\* own identity is 1, and the other one is as it was.
C24_Witness ==
    /\ result.op = "replace_or_insert_one" /\ result.status = "Ok"
    /\ result.calls[2].op = "replace_one"
    /\ result.args.query.value = ByVal("a")
    /\ result.args.document.value.id = 1
    /\ result.args.document.value.val = "b"
    /\ DocsOf(self) = {[_id |-> 1, val |-> "a"], [_id |-> 2, val |-> "b"]}

(***************************************************************************)
(* Model::save and Model::delete.                                          *)
(***************************************************************************)
\* The raw collection Model::save and Model::delete on r are to go to: the
\* back-reference's if r carries one, the default Client's otherwise.
TargetOf(r) ==
    IF IsSome(own_collection(r))
    THEN own_collection(r).value.collection
    ELSE ClientCollection(MANOR_CLIENT.value).collection

\* The step is a Model::save or a Model::delete on the held record that
\* got to the store.
ModelStoreStep ==
    /\ IsSome(rec)
    /\ result'.op \in {"save", "delete_one"}
    /\ result'.status # "Panic"

\* C25: Model::save and Model::delete on a record that carries a
\* back-reference issue every store call on the back-reference's collection
\* in its Client's database and change no other collection, whatever the
\* default Client is; a record without a back-reference gets them issued on
\* the default Client's collection, and on nothing when there is no default
\* Client.
C25_ModelStoreThroughBackReference ==
    [][/\ ModelStoreStep =>
            /\ result'.calls # <<>>
            /\ \A k \in DOMAIN result'.calls :
                    result'.calls[k].ns = TargetOf(rec.value)
            /\ \A db \in DOMAIN store : \A n \in DOMAIN store[db] :
                    [database |-> db, name |-> n] # TargetOf(rec.value) =>
                        store'[db][n] = store[db][n]
       /\ (result'.op \in {"save", "delete"} /\ result'.status = "Panic") =>
            /\ own_collection(rec.value) = None /\ MANOR_CLIENT = None
            /\ store' = store]_vars

\* A record wrapped by the Collection of one Client was deleted from that
\* Client's database through Model::delete while the other Client is the
\* default one, whose database still holds a document of the same identity.
C25_Witness ==
    /\ result.op = "delete_one" /\ result.status = "Ok"
    /\ IsSome(rec) /\ IsSome(own_collection(rec.value))
    /\ IsSome(MANOR_CLIENT)
    /\ own_collection(rec.value).value.client # MANOR_CLIENT.value
    /\ result.calls[1].ns = own_collection(rec.value).value.collection
    /\ \E d \in DocsOf(ClientCollection(MANOR_CLIENT.value)) :
            d._id = rec.value.id
    /\ \A d \in DocsOf(own_collection(rec.value).value) :
            d._id # rec.value.id

====
